---- MODULE Spec2Model ----
(***************************************************************************)
(* A model of the document question-answering application:                 *)
(*   src/src/tasks/loader.py      DocumentLoader  (format loader, chunker) *)
(*   src/src/tasks/embeddings.py  TogetherEmbeddings, EmbeddingManager     *)
(*                                                (vector index)           *)
(*   src/src/tasks/together_ai.py TogetherAIManager (the LLM)              *)
(*   src/src/pipelines/qa_chain.py QAChain        (conversation engine)    *)
(*   src/src/app.py               PDFQAApp        (session handlers)       *)
(*   src/main.py                  main            (a script run)           *)
(*                                                                         *)
(* Text is a sequence of one-character strings, so that lower(), "in" and  *)
(* endswith() are computed rather than assumed.  A fixed literal of the    *)
(* code is written as one element holding the whole literal.               *)
(* An optional value (Python None or a value) is <<>> or <<v>>.            *)
(* A mapping (Python dict) is a set of <<key, value>> pairs.               *)
(***************************************************************************)
EXTENDS Integers, Sequences, FiniteSets, TLC

VARIABLES
    vectorstore,    \* st.session_state.vectorstore: <<>> (no key) or <<index>>
    conversation,   \* st.session_state.conversation: <<>> (None) or <<chain>>
    chat_history,   \* st.session_state.chat_history (list of (question, answer))
    memory,         \* the ConversationBufferWindowMemory objects: id -> saved turns
    qa_chain,       \* the QAChain objects alive: sequence of [memory |-> id]
    chains,         \* SpecQA: the chains a client of QAChain holds
    pc,             \* position in PDFQAApp.run: the handler step that runs next
    last,           \* what the last handler did and showed
    ret,            \* the last call of a method or constructor and its result
    sessions,       \* SpecSessions: the sessions served by one process, id -> state
    files           \* SpecSessions: the working directory the sessions share,
                    \* temp file path -> what loading the file gives

vars ==
    <<vectorstore, conversation, chat_history, memory, qa_chain, chains, pc, last, ret,
      sessions, files>>

None == <<>>
Some(v) == <<v>>

(***************************************************************************)
(* Text helpers (Python str methods used by the code)                      *)
(***************************************************************************)
LowerChar(c) ==
    CASE c = "A" -> "a" [] c = "C" -> "c" [] c = "D" -> "d" [] c = "E" -> "e"
      [] c = "F" -> "f" [] c = "H" -> "h" [] c = "L" -> "l" [] c = "M" -> "m"
      [] c = "O" -> "o" [] c = "P" -> "p" [] c = "Q" -> "q" [] c = "S" -> "s"
      [] c = "T" -> "t" [] c = "U" -> "u" [] c = "V" -> "v" [] c = "X" -> "x"
      [] OTHER -> c

Lower(s) == [i \in 1..Len(s) |-> LowerChar(s[i])]

Contains(s, p) == \E i \in 0..(Len(s) - Len(p)) : SubSeq(s, i + 1, i + Len(p)) = p

EndsWith(s, p) == Len(s) >= Len(p) /\ SubSeq(s, Len(s) - Len(p) + 1, Len(s)) = p

IsSpace(c) == c \in {" ", "\n", "\t"}

RECURSIVE LStrip(_)
LStrip(s) == IF s # <<>> /\ IsSpace(Head(s)) THEN LStrip(Tail(s)) ELSE s

RECURSIVE RStrip(_)
RStrip(s) ==
    IF s # <<>> /\ IsSpace(s[Len(s)]) THEN RStrip(SubSeq(s, 1, Len(s) - 1)) ELSE s

Strip(s) == RStrip(LStrip(s))

LastIndexOf(s, c) ==
    IF \E i \in 1..Len(s) : s[i] = c
    THEN CHOOSE i \in 1..Len(s) : s[i] = c /\ \A j \in (i + 1)..Len(s) : s[j] # c
    ELSE 0

\* os.path.splitext(p)[1]: from the last dot of the last path component, unless
\* that component has only dots before it.
splitext(p) ==
    LET sepIndex == LastIndexOf(p, "/")
        dotIndex == LastIndexOf(p, ".")
    IN  IF dotIndex > sepIndex /\ \E i \in (sepIndex + 1)..(dotIndex - 1) : p[i] # "."
        THEN SubSeq(p, dotIndex, Len(p))
        ELSE <<>>

(***************************************************************************)
(* Results of a call: a returned value or a raised exception               *)
(***************************************************************************)
NoExc == [type |-> "", msg |-> <<>>]
Exc(t, m) == [type |-> t, msg |-> m]
Ok(v, l) == [raised |-> FALSE, exc |-> NoExc, value |-> v, loader |-> l]
Raise(e, l) == [raised |-> TRUE, exc |-> e, value |-> <<>>, loader |-> l]

Document(text, metadata) == [page_content |-> text, metadata |-> metadata]

(***************************************************************************)
(* DocumentLoader (src/src/tasks/loader.py)                                *)
(***************************************************************************)
chunk_size == 1000
chunk_overlap == 200

dot_pdf == <<".", "p", "d", "f">>
dot_txt == <<".", "t", "x", "t">>
dot_text == <<".", "t", "e", "x", "t">>
dot_md == <<".", "m", "d">>
dot_markdown == <<".", "m", "a", "r", "k", "d", "o", "w", "n">>
dot_docx == <<".", "d", "o", "c", "x">>
dot_doc == <<".", "d", "o", "c">>
dot_csv == <<".", "c", "s", "v">>
dot_xlsx == <<".", "x", "l", "s", "x">>
dot_xls == <<".", "x", "l", "s">>
dot_pptx == <<".", "p", "p", "t", "x">>
dot_ppt == <<".", "p", "p", "t">>
dot_html == <<".", "h", "t", "m", "l">>
dot_htm == <<".", "h", "t", "m">>

\* A fault of the extension chain: an unknown extension is read as plain text.
InferFileType_TextFallback(file_extension) ==
    CASE file_extension = dot_pdf -> Some("pdf")
      [] file_extension \in {dot_docx, dot_doc} -> Some("docx")
      [] file_extension = dot_csv -> Some("csv")
      [] file_extension \in {dot_xlsx, dot_xls} -> Some("xlsx")
      [] file_extension \in {dot_pptx, dot_ppt} -> Some("pptx")
      [] file_extension \in {dot_html, dot_htm} -> Some("html")
      [] OTHER -> Some("txt")

\* The extension chain of load_document (lines 52-67): the inferred file type,
\* or None where the code raises.
InferFileType(file_extension) ==
    CASE file_extension = dot_pdf -> Some("pdf")
      [] file_extension \in {dot_txt, dot_text, dot_md, dot_markdown} -> Some("txt")
      [] file_extension \in {dot_docx, dot_doc} -> Some("docx")
      [] file_extension = dot_csv -> Some("csv")
      [] file_extension \in {dot_xlsx, dot_xls} -> Some("xlsx")
      [] file_extension \in {dot_pptx, dot_ppt} -> Some("pptx")
      [] file_extension \in {dot_html, dot_htm} -> Some("html")
      [] OTHER -> None

\* The loader chain of load_document (lines 70-85): the loader class built, or
\* "" where the code raises.
LoaderFor(file_type) ==
    CASE file_type = "pdf" -> "PyPDFLoader"
      [] file_type = "txt" -> "TextLoader"
      [] file_type = "docx" -> "Docx2txtLoader"
      [] file_type = "csv" -> "CSVLoader"
      [] file_type = "xlsx" -> "UnstructuredExcelLoader"
      [] file_type = "pptx" -> "UnstructuredPowerPointLoader"
      [] file_type = "html" -> "UnstructuredHTMLLoader"
      [] OTHER -> ""

\* load_document(file_path, file_type): `loaded` is what building the loader and
\* loader.load() give for the file (documents, or an exception).  Making the path
\* absolute (lines 45-47) joins directories in front and leaves the extension.
load_document(file_path, file_type, loaded) ==
    LET file_extension == Lower(splitext(file_path))
        inferred == IF file_type = None THEN InferFileType(file_extension) ELSE file_type
    IN  IF inferred = None
        THEN Raise(Exc("ValueError", <<"Unsupported file extension: ">> \o file_extension), "")
        ELSE IF LoaderFor(inferred[1]) = ""
        THEN Raise(Exc("ValueError", <<"Unsupported file type: ", inferred[1]>>), "")
        ELSE IF loaded.raised
        THEN Raise(loaded.exc, LoaderFor(inferred[1]))
        ELSE Ok(loaded.value, LoaderFor(inferred[1]))

\* load_pdf(pdf_path)
load_pdf(pdf_path, loaded) == load_document(pdf_path, Some("pdf"), loaded)

\* load_online_pdf(pdf_url): `fetched` is what OnlinePDFLoader(pdf_url).load() gives.
load_online_pdf(pdf_url, fetched) ==
    IF fetched.raised
    THEN Raise(fetched.exc, "OnlinePDFLoader")
    ELSE Ok(fetched.value, "OnlinePDFLoader")

\* load_from_text(text, metadata=None)
load_from_text(text, metadata) ==
    LET md == IF metadata = None THEN {<<"source", "user_input">>} ELSE metadata[1]
    IN  Ok(<<Document(text, md)>>, "")

\* load_from_url(url): `fetched` is what the loader chosen for the URL gives.
load_from_url(url, fetched) ==
    IF EndsWith(Lower(url), dot_pdf)
    THEN load_online_pdf(url, fetched)
    ELSE IF fetched.raised
         THEN [load_from_text(<<"Failed to load content from ">> \o url \o <<": ">>
                                  \o fetched.exc.msg, None)
                  EXCEPT !.loader = "UnstructuredHTMLLoader"]
         ELSE Ok(fetched.value, "UnstructuredHTMLLoader")

\* RecursiveCharacterTextSplitter's default separators: paragraph, line, space,
\* then between any two characters.
Separators == <<<<"\n", "\n">>, <<"\n">>, <<" ">>, <<>>>>

RECURSIVE Concat(_)
Concat(pieces) == IF pieces = <<>> THEN <<>> ELSE Head(pieces) \o Concat(Tail(pieces))

RECURSIVE TotalLen(_)
TotalLen(pieces) == IF pieces = <<>> THEN 0 ELSE Len(Head(pieces)) + TotalLen(Tail(pieces))

\* The splitter's _join_docs: the pieces joined and stripped; no chunk when empty.
JoinDocs(pieces) ==
    LET text == Strip(Concat(pieces)) IN IF text = <<>> THEN <<>> ELSE <<text>>

RECURSIVE SplitKeep(_, _, _)
\* Cutting at every occurrence of a separator, each separator kept at the start of
\* the piece that follows it.
SplitKeep(text, separator, piece) ==
    IF text = <<>>
    THEN <<piece>>
    ELSE IF Len(text) >= Len(separator) /\ SubSeq(text, 1, Len(separator)) = separator
         THEN <<piece>> \o SplitKeep(SubSeq(text, Len(separator) + 1, Len(text)),
                                     separator, separator)
         ELSE SplitKeep(Tail(text), separator, Append(piece, Head(text)))

NonEmpty(pieces) == SelectSeq(pieces, LAMBDA x : x # <<>>)

SplitWithSeparator(text, separator) ==
    IF separator = <<>>
    THEN [i \in 1..Len(text) |-> <<text[i]>>]
    ELSE NonEmpty(SplitKeep(text, separator, <<>>))

RECURSIVE DropForOverlap_KeepsWhatFits(_, _, _, _)
\* A fault of the while loop of _merge_splits: pieces leave the front of the
\* current chunk only until the next piece fits, whatever the overlap.
DropForOverlap_KeepsWhatFits(current_doc, len, size, overlap) ==
    IF TotalLen(current_doc) + len > size /\ TotalLen(current_doc) > 0
    THEN DropForOverlap_KeepsWhatFits(Tail(current_doc), len, size, overlap)
    ELSE current_doc

RECURSIVE DropForOverlap(_, _, _, _)
\* The while loop of _merge_splits: pieces leave the front of the current chunk
\* until what is left is no longer than the overlap and the next piece fits.
DropForOverlap(current_doc, len, size, overlap) ==
    IF \/ TotalLen(current_doc) > overlap
       \/ (TotalLen(current_doc) + len > size /\ TotalLen(current_doc) > 0)
    THEN DropForOverlap(Tail(current_doc), len, size, overlap)
    ELSE current_doc

RECURSIVE MergeSplits(_, _, _, _, _)
\* The splitter's _merge_splits (the separator is kept in the pieces, so they are
\* joined with nothing between them).
MergeSplits(splits, current_doc, docs, size, overlap) ==
    IF splits = <<>>
    THEN docs \o JoinDocs(current_doc)
    ELSE LET d == Head(splits)
             full == TotalLen(current_doc) + Len(d) > size /\ current_doc # <<>>
         IN  MergeSplits(Tail(splits),
                         Append(IF full THEN DropForOverlap(current_doc, Len(d), size, overlap)
                                ELSE current_doc, d),
                         IF full THEN docs \o JoinDocs(current_doc) ELSE docs,
                         size, overlap)

FirstSeparator(text, separators) ==
    IF \E i \in 1..Len(separators) : separators[i] = <<>> \/ Contains(text, separators[i])
    THEN CHOOSE i \in 1..Len(separators) :
            /\ separators[i] = <<>> \/ Contains(text, separators[i])
            /\ \A j \in 1..(i - 1) : separators[j] # <<>> /\ ~Contains(text, separators[j])
    ELSE 0

RECURSIVE SplitTextRec(_, _, _, _)
RECURSIVE SplitWalk(_, _, _, _, _, _)
\* The loop of _split_text over the pieces: short pieces are collected and merged, a
\* piece not shorter than the chunk size is split with the remaining separators
\* (or kept whole when none is left).
SplitWalk(splits, good_splits, final_chunks, new_separators, size, overlap) ==
    LET merged == IF good_splits = <<>> THEN <<>>
                  ELSE MergeSplits(good_splits, <<>>, <<>>, size, overlap)
    IN  IF splits = <<>>
        THEN final_chunks \o merged
        ELSE IF Len(Head(splits)) < size
        THEN SplitWalk(Tail(splits), Append(good_splits, Head(splits)), final_chunks,
                       new_separators, size, overlap)
        ELSE SplitWalk(Tail(splits), <<>>,
                       final_chunks \o merged
                           \o (IF new_separators = <<>> THEN <<Head(splits)>>
                               ELSE SplitTextRec(Head(splits), new_separators, size, overlap)),
                       new_separators, size, overlap)

\* RecursiveCharacterTextSplitter._split_text(text, separators).
SplitTextRec(text, separators, size, overlap) ==
    LET i == FirstSeparator(text, separators)
        separator == IF i = 0 THEN separators[Len(separators)] ELSE separators[i]
        new_separators == IF i = 0 \/ separator = <<>> THEN <<>>
                          ELSE SubSeq(separators, i + 1, Len(separators))
    IN  SplitWalk(SplitWithSeparator(text, separator), <<>>, <<>>, new_separators,
                  size, overlap)

\* text_splitter.split_text(text) of the DocumentLoader (lines 25-29).
split_text(text) == SplitTextRec(text, Separators, chunk_size, chunk_overlap)

\* DocumentLoader(chunk_size, chunk_overlap): the loader with its text splitter;
\* the splitter's constructor refuses an overlap larger than the chunk size.
DocumentLoader(size, overlap) ==
    IF overlap > size
    THEN Raise(Exc("ValueError", <<"Got a larger chunk overlap than chunk size">>), "")
    ELSE Ok([chunk_size |-> size, chunk_overlap |-> overlap], "")

RECURSIVE SplitDocuments(_, _)
\* self.text_splitter.split_documents(documents): the chunks of each document, in
\* document order, each with its document's metadata.
SplitDocuments(self, documents) ==
    IF documents = <<>>
    THEN <<>>
    ELSE LET d == Head(documents)
             pieces == SplitTextRec(d.page_content, Separators,
                                    self.chunk_size, self.chunk_overlap)
         IN  [i \in 1..Len(pieces) |-> Document(pieces[i], d.metadata)]
                 \o SplitDocuments(self, Tail(documents))

\* split_documents(documents) of a DocumentLoader() (app.py line 21): the chunk
\* size and overlap are the defaults.
split_documents(documents) == SplitDocuments(DocumentLoader(chunk_size, chunk_overlap).value, documents)

(***************************************************************************)
(* TogetherEmbeddings and EmbeddingManager (src/src/tasks/embeddings.py)   *)
(***************************************************************************)
\* Python truth of an optional string: None and "" are false.
Truthy(opt) == opt # None /\ opt[1] # <<>>

\* TogetherEmbeddings.__init__(api_key=api_key) with TOGETHER_API_KEY as the
\* environment has it (`env_key`): the object, or the ValueError of line 35.
TogetherEmbeddings(api_key, env_key) ==
    LET key == IF Truthy(api_key) THEN api_key ELSE env_key
    IN  IF ~Truthy(key)
        THEN Raise(Exc("ValueError",
                       <<"TOGETHER_API_KEY not found in environment variables or parameters">>),
                   "")
        ELSE Ok([api_key |-> key[1]], "")

\* _get_embedding(text): `posted` is what requests.post does, an exception of
\* the requests library or a response [status_code, text, json]; json is what
\* response.json() finds in the body.
_get_embedding(self, text, posted) ==
    IF posted.raised
    THEN Raise(posted.exc, "")
    ELSE LET response == posted.value
         IN  IF response.status_code # 200
             THEN Raise(Exc("ValueError", <<"Error from Together.ai API: ">> \o response.text), "")
             ELSE IF response.json.kind = "invalid"
             THEN Raise(Exc("JSONDecodeError", <<"Expecting value">>), "")
             ELSE IF response.json.kind = "no_data"
             THEN Raise(Exc("KeyError", <<"'data'">>), "")
             ELSE IF response.json.kind = "empty_data"
             THEN Raise(Exc("IndexError", <<"list index out of range">>), "")
             ELSE Ok(response.json.embedding, "")

\* embed_documents(texts): the embeddings one by one; the first exception leaves
\* the call.  `posted` has the outcome of the request made for each text.
RECURSIVE embed_documents(_, _, _)
embed_documents(self, texts, posted) ==
    IF texts = <<>> THEN Ok(<<>>, "")
    ELSE LET first == _get_embedding(self, Head(texts), Head(posted))
             rest == embed_documents(self, Tail(texts), Tail(posted))
         IN  IF first.raised THEN first
             ELSE IF rest.raised THEN rest
             ELSE Ok(<<first.value>> \o rest.value, "")

\* os.getenv(name, default) for a variable the environment has or has not.
GetEnv(value, default) == IF value = None THEN default ELSE value[1]

\* EmbeddingManager() (lines 99-124): no embeddings given, so the model name
\* comes from the environment and a TogetherEmbeddings is built.
EmbeddingManager(env) ==
    LET model_name == GetEnv(env.TOGETHER_EMBEDDING_MODEL,
                             "togethercomputer/m2-bert-80M-8k-retrieval")
        embeddings == TogetherEmbeddings(None, env.TOGETHER_API_KEY)
    IN  IF embeddings.raised THEN embeddings
        ELSE Ok([model_name |-> model_name, embeddings |-> embeddings.value], "")

\* create_vector_store(documents): FAISS.from_documents embeds every text with
\* TogetherEmbeddings.embed_documents (`embedded`: its outcome) and builds the index
\* over (vector, document) pairs; the index's dimension is read off the first
\* vector, so an empty list raises IndexError before anything is built.
create_vector_store(documents, embedded) ==
    IF documents = <<>>
    THEN Raise(Exc("IndexError", <<"list index out of range">>), "")
    ELSE IF embedded.raised
    THEN Raise(embedded.exc, "")
    ELSE Ok([docstore |-> documents], "")

(***************************************************************************)
(* TogetherAIManager (src/src/tasks/together_ai.py)                        *)
(***************************************************************************)
\* TogetherAIManager() (lines 19-38): the key and the model name come from the
\* environment; without a key, ValueError.
TogetherAIManager(env) ==
    IF ~Truthy(env.TOGETHER_API_KEY)
    THEN Raise(Exc("ValueError",
                   <<"TOGETHER_API_KEY not found in environment variables or parameters">>),
               "")
    ELSE Ok([api_key |-> env.TOGETHER_API_KEY[1],
             model_name |-> GetEnv(env.TOGETHER_MODEL_NAME, "deepseek-ai/DeepSeek-V3")], "")

\* get_llm() (lines 40-55): a Together LLM for the manager's model.
get_llm(self) == [provider |-> "Together", model |-> self.model_name]

(***************************************************************************)
(* QAChain (src/src/pipelines/qa_chain.py)                                 *)
(***************************************************************************)
memory_k == 5

QAChainParameters == {"model_repo_id", "temperature", "max_length", "memory_k"}

\* QAChain(**kwargs) (lines 14-50): a keyword that is no parameter of __init__
\* is a TypeError of the call; the body builds a HuggingFaceHub LLM of its own
\* (lines 34-37), which wants the Hugging Face token, then the memory and the
\* prompt.
QAChain(kwargs, env) ==
    IF \E a \in kwargs : a[1] \notin QAChainParameters
    THEN Raise(Exc("TypeError", <<"__init__() got an unexpected keyword argument">>), "")
    ELSE IF ~Truthy(env.HUGGINGFACEHUB_API_TOKEN)
    THEN Raise(Exc("ValidationError", <<"Did not find huggingfacehub_api_token">>), "")
    ELSE Ok([llm |-> [provider |-> "HuggingFaceHub",
                      model |-> GetEnv(env.LLM_MODEL_REPO_ID, "TheBloke/phi-2-GGUF")],
             memory_k |-> memory_k], "")

\* ConversationBufferWindowMemory.load_memory_variables: the last k saved turns.
load_memory_variables(buffer) ==
    IF Len(buffer) <= memory_k THEN buffer
    ELSE SubSeq(buffer, Len(buffer) - memory_k + 1, Len(buffer))

\* QAChain.create_chain(vectorstore): the chain built over the vector store's
\* retriever and this QAChain's memory object (self.memory, made once in __init__).
create_chain(self, index) == [retriever |-> index, memory |-> self.memory]

\* Calling a chain with {"question": q}: the memory's window is loaded as
\* chat_history, the retriever and the LLM are called (`generated`: their outcome),
\* and on success the turn is saved to the memory; an exception leaves the memory
\* as it was.
CallChain(chain, heap, question, generated) ==
    LET request == [question |-> question,
                    chat_history |-> load_memory_variables(heap[chain.memory]),
                    retriever |-> chain.retriever]
    IN  IF generated.raised
        THEN [raised |-> TRUE, exc |-> generated.exc, answer |-> <<>>,
              request |-> request, heap |-> heap]
        ELSE [raised |-> FALSE, exc |-> NoExc, answer |-> generated.value,
              request |-> request,
              heap |-> [heap EXCEPT ![chain.memory] =
                            Append(@, <<question, generated.value>>)]]

(***************************************************************************)
(* Inputs                                                                  *)
(***************************************************************************)
Outcome(raised, exc, value) == [raised |-> raised, exc |-> exc, value |-> value]
Failed(exc) == Outcome(TRUE, exc, <<>>)
Done(value) == Outcome(FALSE, NoExc, value)

SupportedExtensions ==
    {dot_pdf, dot_txt, dot_text, dot_md, dot_markdown, dot_docx, dot_doc, dot_csv,
     dot_xlsx, dot_xls, dot_pptx, dot_ppt, dot_html, dot_htm}

FilePaths ==
    {<<"f">> \o e : e \in SupportedExtensions}
        \cup {<<"f", ".", "P", "D", "F">>, <<"d", "/", "f", ".", "T", "x", "t">>,
              <<"f", ".", "e", "x", "e">>, <<"f", ".", "E", "X", "E">>, <<"f">>,
              <<".", "t", "x", "t">>, <<"v", ".", "p", "d", "f", "/", "f">>,
              <<"f", ".", "p", "d", "f", "x">>, <<"f", ".", "m", "d", ".", "g", "z">>}

FileTypeArgs ==
    {None} \cup {Some(t) : t \in {"pdf", "txt", "docx", "csv", "xlsx", "pptx", "html", "exe"}}

TextA == <<"a", " ", "b">>
TextBlank == <<" ">>
TextC == <<"c", "\n">>
Texts == {TextA, TextBlank, TextC}

PageA == Document(TextA, {<<"source", "f">>, <<"page", "0">>})
PageC == Document(TextC, {<<"source", "f">>, <<"page", "1">>})

LoadOutcomes ==
    {Failed(Exc("OSError", <<"n", "o", " ", "f", "i", "l", "e">>)),
     Done(<<>>), Done(<<PageA>>), Done(<<PageA, PageC>>)}

MetadataArgs ==
    {None, Some({}), Some({<<"author", "me">>}), Some({<<"source", "notes">>}),
     Some({<<"source", "user_input">>, <<"author", "me">>})}

Urls ==
    {<<"h", "/", "a", ".", "p", "d", "f">>, <<"h", "/", "a", ".", "P", "D", "F">>,
     <<"h", "/", "a", ".", "h", "t", "m">>, <<"h", "/", "p", "d", "f">>}

(***************************************************************************)
(* Initial state: a new session (conversation None, no other key), before  *)
(* the first script run builds its PDFQAApp.                               *)
(***************************************************************************)
MaxQAChains == 2
MemIds == 1..MaxQAChains

NoCall == [op |-> "none", arg |-> <<>>, opt |-> None, env |-> Done(<<>>), result |-> Ok(<<>>, "")]

NoLast ==
    [op |-> "none", status |-> "", raised |-> FALSE, exc |-> NoExc, docs |-> None,
     question |-> "", answer |-> <<>>, request |-> None]

\* The temp files handle_document_upload may write (app.py line 98), and what
\* loading a path gives while no file is there.
TempPaths == {<<"temp_uploaded">> \o e : e \in {dot_pdf, dot_txt}}

NoFile == Failed(Exc("FileNotFoundError", <<"n", "o", " ", "f", "i", "l", "e">>))

SessionIds == {"s1", "s2"}

NewSession ==
    [pc |-> "idle", uploaded_file |-> None, documents |-> <<>>, vectorstore |-> None,
     conversation |-> None, chat_history |-> <<>>, buffer |-> <<>>]

Init ==
    /\ sessions = [s \in SessionIds |-> NewSession]
    /\ files = [p \in TempPaths |-> NoFile]
    /\ vectorstore = None
    /\ conversation = None
    /\ chat_history = <<>>
    /\ memory = [i \in MemIds |-> <<>>]
    /\ qa_chain = <<>>
    /\ chains = <<>>
    /\ pc = "upload_tab"
    /\ last = NoLast
    /\ ret = NoCall

(***************************************************************************)
(* SpecLoader: calls of DocumentLoader's loading methods                   *)
(***************************************************************************)
appVars ==
    <<vectorstore, conversation, chat_history, memory, qa_chain, chains, pc, last,
      sessions, files>>

CallLoadDocument ==
    \E file_path \in FilePaths, file_type \in FileTypeArgs, loaded \in LoadOutcomes :
        /\ ret' = [op |-> "load_document", arg |-> file_path, opt |-> file_type,
                   env |-> loaded, result |-> load_document(file_path, file_type, loaded)]
        /\ UNCHANGED appVars

CallLoadPdf ==
    \E pdf_path \in FilePaths, loaded \in LoadOutcomes :
        /\ ret' = [op |-> "load_pdf", arg |-> pdf_path, opt |-> None,
                   env |-> loaded, result |-> load_pdf(pdf_path, loaded)]
        /\ UNCHANGED appVars

CallLoadFromText ==
    \E text \in Texts \cup {<<>>}, metadata \in MetadataArgs :
        /\ ret' = [op |-> "load_from_text", arg |-> text, opt |-> metadata,
                   env |-> Done(<<>>), result |-> load_from_text(text, metadata)]
        /\ UNCHANGED appVars

CallLoadFromUrl ==
    \E url \in Urls, fetched \in LoadOutcomes :
        /\ ret' = [op |-> "load_from_url", arg |-> url, opt |-> None,
                   env |-> fetched, result |-> load_from_url(url, fetched)]
        /\ UNCHANGED appVars

NextLoader == CallLoadDocument \/ CallLoadPdf \/ CallLoadFromText \/ CallLoadFromUrl

SpecLoader == Init /\ [][NextLoader]_vars

(***************************************************************************)
(* SpecSplit: DocumentLoader(chunk_size, chunk_overlap).split_documents    *)
(***************************************************************************)
MaxChunkSize == 4

Units ==
    {Document(<<>>, {<<"source", "u0">>}),
     Document(<<"a", "b", " ", "c", "d", " ", "e", "f">>, {<<"source", "u1">>}),
     Document(<<"a", "\n", "\n", "b", "c", " ", "d", "\n", "e">>, {<<"source", "u2">>}),
     Document(<<"a", "b", "c", "d", "e", "f", "g">>, {<<"source", "u3">>}),
     Document(<<"a", " ", " ", "b", " ", "a", "b">>, {<<"source", "u4">>}),
     Document(<<" ", "x", "y", " ", "\n">>, {<<"source", "u5">>})}

FirstUnits == {u \in Units : Len(u.page_content) \in {0, 7}}

UnitLists == {<<>>} \cup {<<u>> : u \in Units} \cup {<<u, v>> : u \in FirstUnits, v \in Units}

CallSplitDocuments ==
    \E size \in 1..MaxChunkSize, overlap \in 0..MaxChunkSize, documents \in UnitLists :
        LET loader == DocumentLoader(size, overlap)
        IN  /\ ret' = [op |-> "split_documents", arg |-> documents,
                       opt |-> Some([chunk_size |-> size, chunk_overlap |-> overlap]),
                       env |-> Done(<<>>),
                       result |-> IF loader.raised THEN loader
                                  ELSE Ok(SplitDocuments(loader.value, documents), "")]
            /\ UNCHANGED appVars

NextSplit == CallSplitDocuments

SpecSplit == Init /\ [][NextSplit]_vars

(***************************************************************************)
(* SpecEmbed: calls of TogetherEmbeddings                                  *)
(***************************************************************************)
ApiKeys == {None, Some(<<>>), Some(<<"k", "1">>), Some(<<"k", "2">>)}

Embedding == <<1, 0>>

Bodies ==
    {[kind |-> "embedding", embedding |-> Embedding],
     [kind |-> "invalid", embedding |-> <<>>],
     [kind |-> "no_data", embedding |-> <<>>],
     [kind |-> "empty_data", embedding |-> <<>>]}

StatusCodes == {200, 401, 429, 500}

\* What requests.post gives: a connection that fails or runs out of time, or a
\* response of the service.
PostOutcomes ==
    {Failed(Exc("ConnectionError", <<"unreachable">>)),
     Failed(Exc("Timeout", <<"t", "i", "m", "e", "d", " ", "o", "u", "t">>))}
        \cup {Done([status_code |-> c, text |-> <<"d", "o", "w", "n">>, json |-> j]) :
                 c \in StatusCodes, j \in Bodies}

Embedders == {[api_key |-> <<"k", "1">>]}

CallTogetherEmbeddings ==
    \E api_key \in ApiKeys, env_key \in ApiKeys :
        /\ ret' = [op |-> "TogetherEmbeddings", arg |-> <<>>, opt |-> api_key,
                   env |-> Done(env_key), result |-> TogetherEmbeddings(api_key, env_key)]
        /\ UNCHANGED appVars

CallGetEmbedding ==
    \E self \in Embedders, text \in Texts \cup {<<>>}, posted \in PostOutcomes :
        /\ ret' = [op |-> "_get_embedding", arg |-> text, opt |-> None,
                   env |-> posted, result |-> _get_embedding(self, text, posted)]
        /\ UNCHANGED appVars

CallEmbedDocuments ==
    \E self \in Embedders, first \in PostOutcomes, second \in PostOutcomes :
        /\ ret' = [op |-> "embed_documents", arg |-> <<TextA, TextC>>, opt |-> None,
                   env |-> Done(<<first, second>>),
                   result |-> embed_documents(self, <<TextA, TextC>>, <<first, second>>)]
        /\ UNCHANGED appVars

NextEmbed == CallTogetherEmbeddings \/ CallGetEmbedding \/ CallEmbedDocuments

SpecEmbed == Init /\ [][NextEmbed]_vars

(***************************************************************************)
(* PDFQAApp (src/src/app.py)                                               *)
(*                                                                         *)
(* Spec follows the script runs of a session: every run builds a PDFQAApp  *)
(* (main.py lines 20-21) and run() goes through the three tabs of          *)
(* handle_document_upload and then handle_user_input.  The components of   *)
(* the PDFQAApp (lines 19-27) are taken as built, so that the handlers     *)
(* run; the QAChain of a run brings its own memory object.  The widgets'   *)
(* values are inputs; Streamlit gives a pressed button or a submitted      *)
(* question to the one script run it starts.                               *)
(***************************************************************************)
MaxHistory == 2
MaxMemory == 3

Questions == {"q1", "q2"}

GenOutcomes ==
    {Done(<<"a", "n", "s">>),
     Failed(Exc("HTTPError", <<"H", "T", "T", "P", " ", "4", "2", "9">>)),
     Failed(Exc("ValueError", <<"Q", "u", "o", "t", "a", " ", "h", "i", "t">>)),
     Failed(Exc("Timeout", <<"t", "i", "m", "e", "d", " ", "o", "u", "t">>))}

EmbedOutcomes ==
    {Done(<<>>), Failed(Exc("ValueError", <<"Error from Together.ai API: ", "d", "o", "w", "n">>))}

\* What st.file_uploader lets through (type=[...], line 89): the file's name and what
\* loading the saved copy gives.
Uploads ==
    {[name |-> n, loaded |-> l] :
        n \in {<<"f", ".", "P", "D", "F">>},
        l \in {Failed(Exc("OSError", <<"n", "o", " ", "f", "i", "l", "e">>)),
               Done(<<>>), Done(<<PageA>>)}}

UrlInputs ==
    {[url |-> u, fetched |-> f] :
        u \in {<<"h", "/", "a", ".", "P", "D", "F">>, <<"h", "/", "a", ".", "h", "t", "m">>},
        f \in {Failed(Exc("OSError", <<"n", "o", " ", "f", "i", "l", "e">>)), Done(<<PageA>>)}}

\* The memory objects some live object refers to keep their turns; the others are
\* gone with the chain or QAChain that held them.
Collect(heap, live) == [i \in MemIds |-> IF i \in live THEN heap[i] ELSE <<>>]

LiveMemories(chain_opt, qas) ==
    {chain_opt[i].memory : i \in 1..Len(chain_opt)} \cup {qas[i].memory : i \in 1..Len(qas)}

\* PDFQAApp.__init__ with its components built: the QAChain of this script run
\* has a memory object of its own (QAChain.__init__, lines 40-44).
NewMemoryId == CHOOSE i \in MemIds : conversation = None \/ conversation[1].memory # i

Session == [vectorstore |-> vectorstore, conversation |-> conversation]

\* A fault of _process_documents: the session's vector store is dropped before the
\* new one is built, so a failed build leaves the session without it.
_process_documents_ClearsFirst(self, sess, documents, embedded) ==
    IF documents = <<>>
    THEN [status |-> "empty", exc |-> NoExc,
          vectorstore |-> sess.vectorstore, conversation |-> sess.conversation]
    ELSE LET built == create_vector_store(split_documents(documents), embedded)
         IN  IF built.raised
             THEN [status |-> "failed", exc |-> built.exc,
                   vectorstore |-> None, conversation |-> sess.conversation]
             ELSE [status |-> "ok", exc |-> NoExc,
                   vectorstore |-> Some(built.value),
                   conversation |-> Some(create_chain(self, built.value))]

\* A fault of _process_documents: the new chunks are added to the session's index.
_process_documents_Merges(self, sess, documents, embedded) ==
    IF documents = <<>>
    THEN [status |-> "empty", exc |-> NoExc,
          vectorstore |-> sess.vectorstore, conversation |-> sess.conversation]
    ELSE LET built == create_vector_store(split_documents(documents), embedded)
             merged == IF sess.vectorstore = None THEN built.value
                       ELSE [docstore |-> sess.vectorstore[1].docstore \o built.value.docstore]
         IN  IF built.raised
             THEN [status |-> "failed", exc |-> built.exc,
                   vectorstore |-> sess.vectorstore, conversation |-> sess.conversation]
             ELSE [status |-> "ok", exc |-> NoExc,
                   vectorstore |-> Some(merged),
                   conversation |-> Some(create_chain(self, merged))]

\* _process_documents(documents, source_description): the session state it leaves.
\* create_vector_store raising leaves lines 154-161 unreached.
_process_documents(self, sess, documents, embedded) ==
    IF documents = <<>>
    THEN [status |-> "empty", exc |-> NoExc,
          vectorstore |-> sess.vectorstore, conversation |-> sess.conversation]
    ELSE LET split_docs == split_documents(documents)
             built == create_vector_store(split_docs, embedded)
         IN  IF built.raised
             THEN [status |-> "failed", exc |-> built.exc,
                   vectorstore |-> sess.vectorstore, conversation |-> sess.conversation]
             ELSE [status |-> "ok", exc |-> NoExc,
                   vectorstore |-> Some(built.value),
                   conversation |-> Some(create_chain(self, built.value))]

\* A tab of handle_document_upload: load, then _process_documents.
Ingest(self, sess, loaded, embedded) ==
    IF loaded.raised
    THEN [status |-> "failed", exc |-> loaded.exc,
          vectorstore |-> sess.vectorstore, conversation |-> sess.conversation]
    ELSE _process_documents(self, sess, loaded.value, embedded)

TabLast(tab, loaded, done, propagates) ==
    [op |-> tab, status |-> done.status, raised |-> (done.status = "failed" /\ propagates),
     exc |-> NoExc, docs |-> IF done.status = "ok" THEN Some(loaded.value) ELSE None,
     question |-> "", answer |-> <<>>, request |-> None]

SkipLast(tab) == [NoLast EXCEPT !.op = tab, !.status = "skip"]

\* A fault of the ingest tabs: a new document starts the chat history afresh.
TabEffect_ResetsHistory(self, done) ==
    /\ vectorstore' = done.vectorstore
    /\ conversation' = done.conversation
    /\ chat_history' = IF done.status = "ok" THEN <<>> ELSE chat_history
    /\ UNCHANGED <<chains, ret, sessions, files>>

\* After a tab that may have replaced the conversation.
TabEffect(self, done) ==
    /\ vectorstore' = done.vectorstore
    /\ conversation' = done.conversation
    /\ UNCHANGED <<chat_history, chains, ret, sessions, files>>

\* A script run starts: main builds a PDFQAApp and run() enters
\* handle_document_upload; the upload tab (lines 85-106).  An exception leaves
\* run(), which ends the script run.  The session is alone here, so the copy it
\* saves (lines 98-100) is the file it loads (`loaded` of the upload); the file
\* under the writes of several sessions is followed in SpecSessions.
UploadTab ==
    /\ pc = "upload_tab"
    /\ LET self == [memory |-> NewMemoryId]
           heap == [memory EXCEPT ![self.memory] = <<>>]
       IN  /\ qa_chain' = <<self>>
           /\ \/ /\ last' = SkipLast("upload_tab")
                 /\ pc' = "url_tab"
                 /\ memory' = Collect(heap, LiveMemories(conversation, <<self>>))
                 /\ UNCHANGED <<vectorstore, conversation, chat_history, chains, ret, sessions, files>>
              \/ \E uploaded_file \in Uploads, embedded \in EmbedOutcomes :
                    LET file_extension == Lower(splitext(uploaded_file.name))
                        temp_file_path == <<"temp_uploaded">> \o file_extension
                        loaded == load_document(temp_file_path, None, uploaded_file.loaded)
                        done == Ingest(self, Session, loaded, embedded)
                    IN  /\ TabEffect(self, done)
                        /\ memory' = Collect(heap, LiveMemories(done.conversation, <<self>>))
                        /\ last' = TabLast("upload_tab", loaded, done, TRUE)
                        /\ pc' = IF done.status = "failed" THEN "upload_tab" ELSE "url_tab"

\* The URL tab (lines 108-121): an exception is caught and shown.
UrlTab ==
    /\ pc = "url_tab"
    /\ pc' = "text_tab"
    /\ UNCHANGED qa_chain
    /\ \/ /\ last' = SkipLast("url_tab")
          /\ UNCHANGED <<vectorstore, conversation, chat_history, memory, chains, ret, sessions, files>>
       \/ \E input \in UrlInputs, embedded \in EmbedOutcomes :
             LET self == qa_chain[1]
                 loaded == load_from_url(input.url, input.fetched)
                 done == Ingest(self, Session, loaded, embedded)
             IN  /\ TabEffect(self, done)
                 /\ memory' = Collect(memory, LiveMemories(done.conversation, qa_chain))
                 /\ last' = TabLast("url_tab", loaded, done, FALSE)

\* The text tab (lines 123-133): runs for a non-empty text.
TextTab ==
    /\ pc = "text_tab"
    /\ UNCHANGED qa_chain
    /\ \/ /\ last' = SkipLast("text_tab")
          /\ pc' = "input"
          /\ UNCHANGED <<vectorstore, conversation, chat_history, memory, chains, ret, sessions, files>>
       \/ \E text \in {TextA, TextBlank}, embedded \in EmbedOutcomes :
             LET self == qa_chain[1]
                 loaded == load_from_text(text, None)
                 done == Ingest(self, Session, loaded, embedded)
             IN  /\ text # <<>>
                 /\ TabEffect(self, done)
                 /\ memory' = Collect(memory, LiveMemories(done.conversation, qa_chain))
                 /\ last' = TabLast("text_tab", loaded, done, TRUE)
                 /\ pc' = IF done.status = "failed" THEN "upload_tab" ELSE "input"

RateLimitText == <<"API rate limit exceeded. Please try again later or reduce your usage.">>

\* A fault of the rate-limit test: "quota" is looked for without lower().
IsRateLimit_CaseSensitive(error_message) ==
    \/ Contains(error_message, <<"4", "2", "9">>)
    \/ Contains(error_message, <<"q", "u", "o", "t", "a">>)

\* Lines 200-208: the text shown for an exception of the chain.
IsRateLimit(error_message) ==
    \/ Contains(error_message, <<"4", "2", "9">>)
    \/ Contains(Lower(error_message), <<"q", "u", "o", "t", "a">>)

ErrorText(error_message) ==
    IF IsRateLimit(error_message)
    THEN RateLimitText
    ELSE <<"Error generating response: ">> \o error_message

\* A fault of handle_user_input: only rate-limit errors are handled, any other
\* exception leaves the handler.
handle_question_Reraises(chain, heap, history, user_question, generated) ==
    LET response == CallChain(chain, heap, user_question, generated)
        handled == ~response.raised \/ IsRateLimit(response.exc.msg)
        shown == IF response.raised THEN ErrorText(response.exc.msg) ELSE response.answer
    IN  [raised |-> ~handled,
         status |-> IF ~response.raised THEN "answered"
                    ELSE IF IsRateLimit(response.exc.msg) THEN "rate_limited" ELSE "error",
         exc |-> response.exc,
         answer |-> IF handled THEN shown ELSE <<>>,
         request |-> response.request,
         heap |-> response.heap,
         chat_history |-> IF handled THEN Append(history, <<user_question, shown>>)
                          ELSE history]

\* Lines 182-212 of handle_user_input: the question is put to the conversation
\* inside try/except Exception; the answer, or the text shown for the exception, is
\* appended to chat_history with the question.
handle_question(chain, heap, history, user_question, generated) ==
    LET response == CallChain(chain, heap, user_question, generated)
        shown == IF response.raised THEN ErrorText(response.exc.msg) ELSE response.answer
    IN  [raised |-> FALSE,
         status |-> IF ~response.raised THEN "answered"
                    ELSE IF IsRateLimit(response.exc.msg) THEN "rate_limited" ELSE "error",
         exc |-> response.exc,
         answer |-> shown,
         request |-> response.request,
         heap |-> response.heap,
         chat_history |-> Append(history, <<user_question, shown>>)]

\* handle_user_input with a question typed (st.chat_input gives it in the script
\* run its submit started; the clear button is not pressed in that run).
Ask ==
    /\ pc = "input"
    /\ conversation # None
    /\ Len(chat_history) < MaxHistory
    /\ Len(memory[conversation[1].memory]) < MaxMemory
    /\ \E user_question \in Questions, generated \in GenOutcomes :
          LET done == handle_question(conversation[1], memory, chat_history,
                                      user_question, generated)
          IN  /\ chat_history' = IF done.raised THEN chat_history ELSE done.chat_history
              /\ memory' = done.heap
              /\ last' = [op |-> "ask", status |-> done.status, raised |-> done.raised,
                          exc |-> done.exc, docs |-> None, question |-> user_question,
                          answer |-> done.answer, request |-> Some(done.request)]
    /\ pc' = "upload_tab"
    /\ UNCHANGED <<vectorstore, conversation, qa_chain, chains, ret, sessions, files>>

\* A fault of the clear button: the conversation is dropped with the history.
ClearChatHistory_DropsConversation ==
    /\ pc = "input"
    /\ conversation # None
    /\ chat_history # <<>>
    /\ chat_history' = <<>>
    /\ conversation' = None
    /\ last' = [NoLast EXCEPT !.op = "clear"]
    /\ pc' = "upload_tab"
    /\ UNCHANGED <<vectorstore, memory, qa_chain, chains, ret, sessions, files>>

\* handle_user_input with the clear button pressed (lines 214-217); the rerun
\* starts the next script run.
ClearChatHistory ==
    /\ pc = "input"
    /\ conversation # None
    /\ chat_history # <<>>
    /\ chat_history' = <<>>
    /\ last' = [NoLast EXCEPT !.op = "clear"]
    /\ pc' = "upload_tab"
    /\ UNCHANGED <<vectorstore, conversation, memory, qa_chain, chains, ret, sessions, files>>

\* handle_user_input with nothing typed or pressed, or with no conversation yet.
Render ==
    /\ pc = "input"
    /\ last' = [NoLast EXCEPT !.op = "render"]
    /\ pc' = "upload_tab"
    /\ UNCHANGED <<vectorstore, conversation, chat_history, memory, qa_chain, chains, ret, sessions, files>>

Next == UploadTab \/ UrlTab \/ TextTab \/ Ask \/ ClearChatHistory \/ Render

Spec == Init /\ [][Next]_vars

(***************************************************************************)
(* SpecQA: a client of the QAChain class, as in qa_chain.py's example      *)
(* (lines 96-111): it builds QAChain objects, creates chains over vector   *)
(* stores and asks through get_answer.                                     *)
(***************************************************************************)
MaxChains == 2
MaxSaved == 7

Batches == {<<PageA, PageC>>}

QAOutcomes ==
    {Done(<<"a", "n", "s">>), Failed(Exc("Timeout", <<"t", "i", "m", "e", "d", " ", "o", "u", "t">>))}

RECURSIVE Saved(_, _)
Saved(heap, ids) ==
    IF ids = {} THEN 0
    ELSE LET i == CHOOSE j \in ids : TRUE IN Len(heap[i]) + Saved(heap, ids \ {i})

\* QAChain.__init__ (lines 39-44): a QAChain with a new, empty memory object.
QAChainInit ==
    /\ Len(qa_chain) < MaxQAChains
    /\ qa_chain' = Append(qa_chain, [memory |-> Len(qa_chain) + 1])
    /\ last' = [NoLast EXCEPT !.op = "QAChain"]
    /\ UNCHANGED <<vectorstore, conversation, chat_history, memory, chains, pc, ret, sessions, files>>

\* qa_chain.create_chain(vectorstore) for a vector store built from a batch; `last`
\* keeps the chat history a first question to the new chain would be sent with.
QACreateChain ==
    /\ Len(chains) < MaxChains
    /\ \E i \in 1..Len(qa_chain), documents \in Batches :
          LET built == create_vector_store(split_documents(documents), Done(<<>>))
              chain == create_chain(qa_chain[i], built.value)
          IN  /\ chains' = Append(chains, chain)
              /\ last' = [NoLast EXCEPT
                            !.op = "create_chain",
                            !.status = "ok",
                            !.docs = Some(documents),
                            !.request = Some([question |-> "",
                                              chat_history |->
                                                  load_memory_variables(memory[chain.memory]),
                                              retriever |-> chain.retriever])]
    /\ UNCHANGED <<vectorstore, conversation, chat_history, memory, qa_chain, pc, ret, sessions, files>>

\* qa_chain.get_answer(chain, question) (lines 71-83): an exception of the chain
\* propagates.
QAGetAnswer ==
    /\ Saved(memory, MemIds) < MaxSaved
    /\ \E c \in 1..Len(chains), question \in Questions, generated \in QAOutcomes :
          LET response == CallChain(chains[c], memory, question, generated)
          IN  /\ memory' = response.heap
              /\ last' = [op |-> "get_answer",
                          status |-> IF response.raised THEN "error" ELSE "answered",
                          raised |-> response.raised, exc |-> response.exc, docs |-> None,
                          question |-> question, answer |-> response.answer,
                          request |-> Some(response.request)]
    /\ UNCHANGED <<vectorstore, conversation, chat_history, qa_chain, chains, pc, ret, sessions, files>>

NextQA == QAChainInit \/ QACreateChain \/ QAGetAnswer

SpecQA == Init /\ [][NextQA]_vars

(***************************************************************************)
(* SpecApp: a script run from its start (main.py lines 16-21): main builds *)
(* the PDFQAApp, with every component built as its constructor builds it,  *)
(* and calls run().  A run that gets past setup_ui enters                  *)
(* handle_document_upload (pc = "upload_tab"), where Spec's steps begin.   *)
(***************************************************************************)
Environments ==
    [TOGETHER_API_KEY : ApiKeys,
     TOGETHER_MODEL_NAME : {None, Some("m")},
     TOGETHER_EMBEDDING_MODEL : {None, Some("e")},
     LLM_MODEL_REPO_ID : {None, Some("r")},
     HUGGINGFACEHUB_API_TOKEN : {None, Some(<<"t">>)}]

InitApp ==
    /\ sessions = [s \in SessionIds |-> NewSession]
    /\ files = [p \in TempPaths |-> NoFile]
    /\ vectorstore = None
    /\ conversation = None
    /\ chat_history = <<>>
    /\ memory = [i \in MemIds |-> <<>>]
    /\ qa_chain = <<>>
    /\ chains = <<>>
    /\ pc = "main"
    /\ last = NoLast
    /\ ret = NoCall

\* PDFQAApp.__init__ (lines 15-37): the components are built one after the other
\* inside try; an exception of any of them ends the block, leaves the later
\* attributes unset and its text in self.error.
PDFQAApp(env) ==
    LET together_ai == TogetherAIManager(env)
        llm == get_llm(together_ai.value)
        doc_loader == DocumentLoader(chunk_size, chunk_overlap)
        embedding_manager == EmbeddingManager(env)
        built == QAChain({<<"llm", llm>>}, env)
        unset == [error |-> None, together_ai |-> None, doc_loader |-> None,
                  embedding_manager |-> None, qa_chain |-> None]
    IN  IF together_ai.raised
        THEN [unset EXCEPT !.error = Some(together_ai.exc.msg)]
        ELSE IF doc_loader.raised
        THEN [unset EXCEPT !.error = Some(doc_loader.exc.msg),
                           !.together_ai = Some(together_ai.value)]
        ELSE IF embedding_manager.raised
        THEN [unset EXCEPT !.error = Some(embedding_manager.exc.msg),
                           !.together_ai = Some(together_ai.value),
                           !.doc_loader = Some(doc_loader.value)]
        ELSE IF built.raised
        THEN [unset EXCEPT !.error = Some(built.exc.msg),
                           !.together_ai = Some(together_ai.value),
                           !.doc_loader = Some(doc_loader.value),
                           !.embedding_manager = Some(embedding_manager.value)]
        ELSE [error |-> None,
              together_ai |-> Some(together_ai.value),
              doc_loader |-> Some(doc_loader.value),
              embedding_manager |-> Some(embedding_manager.value),
              qa_chain |-> Some(built.value)]

\* setup_ui (lines 39-78): False when the constructor left an error text.
setup_ui(self) == ~Truthy(self.error)

\* main: app = PDFQAApp() (main.py line 20) in the environment the process has.
NewPDFQAApp ==
    /\ pc = "main"
    /\ \E env \in Environments :
          ret' = [op |-> "PDFQAApp", arg |-> <<>>, opt |-> None, env |-> Done(env),
                  result |-> Ok(PDFQAApp(env), "")]
    /\ pc' = "run"
    /\ UNCHANGED <<vectorstore, conversation, chat_history, memory, qa_chain, chains, last, sessions, files>>

\* app.run() (lines 219-262): past setup_ui the handlers are entered; otherwise
\* the troubleshooting text is shown and the script run ends.
Run ==
    /\ pc = "run"
    /\ LET self == ret.result.value
       IN  IF setup_ui(self)
           THEN /\ pc' = "upload_tab"
                /\ last' = [NoLast EXCEPT !.op = "run", !.status = "handlers"]
           ELSE /\ pc' = "main"
                /\ last' = [NoLast EXCEPT !.op = "run", !.status = "troubleshooting",
                                          !.answer = self.error[1]]
    /\ UNCHANGED <<vectorstore, conversation, chat_history, memory, qa_chain, chains, ret, sessions, files>>

NextApp == NewPDFQAApp \/ Run

SpecApp == InitApp /\ [][NextApp]_vars

(***************************************************************************)
(* SpecSessions: two sessions served by one Streamlit process.  Each       *)
(* session has its own st.session_state and its script runs in a thread of *)
(* its own; the threads share the working directory.  The upload tab       *)
(* (app.py lines 92-106) is followed step by step: the temp file is        *)
(* opened for writing, written, loaded, and the documents are indexed.     *)
(***************************************************************************)
MaxSessionTurns == 1

\* What each user uploads and asks: the two users' files have different pages.
SessionUploads(s) ==
    IF s = "s1"
    THEN {[name |-> <<"a", ".", "p", "d", "f">>, loaded |-> Done(<<PageA>>)]}
    ELSE {[name |-> <<"b", ".", "P", "D", "F">>, loaded |-> Done(<<PageC>>)],
          [name |-> <<"b", ".", "t", "x", "t">>, loaded |-> Done(<<PageC>>)]}

SessionQuestion(s) == IF s = "s1" THEN "q1" ELSE "q2"

\* Lines 95-98: the temp file's path for an uploaded file.
TempFilePath(uploaded_file) == <<"temp_uploaded">> \o Lower(splitext(uploaded_file.name))

\* A file just opened with "wb" is empty: no valid PDF, a text without characters.
EmptyFile(path) ==
    IF EndsWith(path, dot_pdf)
    THEN Failed(Exc("EmptyFileError", <<"Cannot read an empty file">>))
    ELSE Done(<<Document(<<>>, {<<"source", "temp_uploaded">>})>>)

otherVars == <<vectorstore, conversation, chat_history, memory, qa_chain, chains, pc, last, ret>>

\* A script run of session s starts with a file in st.file_uploader (line 92).
StartUpload(s) ==
    /\ sessions[s].pc = "idle"
    /\ \E uploaded_file \in SessionUploads(s) :
          sessions' = [sessions EXCEPT ![s].pc = "open",
                                       ![s].uploaded_file = Some(uploaded_file)]
    /\ UNCHANGED <<files, otherVars>>

\* open(temp_file_path, "wb") (line 99).
OpenTemp(s) ==
    /\ sessions[s].pc = "open"
    /\ LET temp_file_path == TempFilePath(sessions[s].uploaded_file[1])
       IN  files' = [files EXCEPT ![temp_file_path] = EmptyFile(temp_file_path)]
    /\ sessions' = [sessions EXCEPT ![s].pc = "write"]
    /\ UNCHANGED otherVars

\* f.write(uploaded_file.getbuffer()) and the file's close (line 100).
WriteTemp(s) ==
    /\ sessions[s].pc = "write"
    /\ LET uploaded_file == sessions[s].uploaded_file[1]
       IN  files' = [files EXCEPT ![TempFilePath(uploaded_file)] = uploaded_file.loaded]
    /\ sessions' = [sessions EXCEPT ![s].pc = "load"]
    /\ UNCHANGED otherVars

\* self.doc_loader.load_document(temp_file_path) (line 103): the file is read as
\* it is now; an exception leaves run() and ends the script run.
LoadTemp(s) ==
    /\ sessions[s].pc = "load"
    /\ LET temp_file_path == TempFilePath(sessions[s].uploaded_file[1])
           loaded == load_document(temp_file_path, None, files[temp_file_path])
       IN  sessions' = IF loaded.raised
                       THEN [sessions EXCEPT ![s].pc = "idle", ![s].uploaded_file = None]
                       ELSE [sessions EXCEPT ![s].pc = "process",
                                             ![s].documents = loaded.value]
    /\ UNCHANGED <<files, otherVars>>

\* self._process_documents(documents, ...) (line 106) with the QAChain of this
\* script run, whose memory is new.
ProcessUpload(s) ==
    /\ sessions[s].pc = "process"
    /\ \E embedded \in EmbedOutcomes :
          LET self == [memory |-> 1]
              sess == [vectorstore |-> sessions[s].vectorstore,
                       conversation |-> sessions[s].conversation]
              done == _process_documents(self, sess, sessions[s].documents, embedded)
          IN  sessions' = [sessions EXCEPT
                              ![s].pc = "idle",
                              ![s].uploaded_file = None,
                              ![s].documents = <<>>,
                              ![s].vectorstore = done.vectorstore,
                              ![s].conversation = done.conversation,
                              ![s].buffer = IF done.status = "ok" THEN <<>> ELSE @]
    /\ UNCHANGED <<files, otherVars>>

\* A script run of session s with a question typed (handle_user_input).
AskInSession(s) ==
    /\ sessions[s].pc = "idle"
    /\ sessions[s].conversation # None
    /\ Len(sessions[s].chat_history) < MaxSessionTurns
    /\ \E generated \in QAOutcomes :
          LET chain == sessions[s].conversation[1]
              heap == [i \in MemIds |-> sessions[s].buffer]
              done == handle_question(chain, heap, sessions[s].chat_history,
                                      SessionQuestion(s), generated)
          IN  sessions' = [sessions EXCEPT ![s].chat_history = done.chat_history,
                                           ![s].buffer = done.heap[chain.memory]]
    /\ UNCHANGED <<files, otherVars>>

NextSessions ==
    \E s \in SessionIds :
        \/ StartUpload(s)
        \/ OpenTemp(s)
        \/ WriteTemp(s)
        \/ LoadTemp(s)
        \/ ProcessUpload(s)
        \/ AskInSession(s)

SpecSessions == Init /\ [][NextSessions]_vars

(***************************************************************************)
(* Claims about DocumentLoader (SpecLoader)                                *)
(***************************************************************************)
LoaderStrategies ==
    {"PyPDFLoader", "TextLoader", "Docx2txtLoader", "CSVLoader",
     "UnstructuredExcelLoader", "UnstructuredPowerPointLoader", "UnstructuredHTMLLoader"}

\* C6: load_from_url never raises: whatever the URL, a fetch or parse failure gives
\* back exactly one document whose content records the failure reason.
C6_UrlNeverRaises ==
    ret.op = "load_from_url" =>
        /\ ~ret.result.raised
        /\ ret.env.raised =>
              /\ Len(ret.result.value) = 1
              /\ Contains(ret.result.value[1].page_content, ret.env.exc.msg)

\* C7: load_document without a file type: an extension outside the supported ones
\* raises ValueError whose message names the (lower-cased) extension and no loader is
\* built; a supported extension gets exactly one of the seven loaders.
C7_UnsupportedExtensionNamed ==
    (ret.op = "load_document" /\ ret.opt = None) =>
        LET ext == Lower(splitext(ret.arg))
        IN  IF ext \notin SupportedExtensions
            THEN /\ ret.result.raised
                 /\ ret.result.exc.type = "ValueError"
                 /\ ret.result.exc.msg = <<"Unsupported file extension: ">> \o ext
                 /\ ret.result.loader = ""
            ELSE /\ ret.result.loader \in LoaderStrategies
                 /\ ret.result.raised = ret.env.raised

\* C7's case: a file named f.EXE loaded without a file type was refused.
C7_Witness ==
    /\ ret.op = "load_document"
    /\ ret.opt = None
    /\ ret.arg = <<"f", ".", "E", "X", "E">>
    /\ ret.result.raised
    /\ ret.result.exc.msg = <<"Unsupported file extension: ", ".", "e", "x", "e">>

\* C8: load_from_text always returns exactly one document holding the text, whose
\* metadata has source = "user_input", with or without metadata from the caller.
C8_TextSourceUserInput ==
    ret.op = "load_from_text" =>
        /\ ~ret.result.raised
        /\ Len(ret.result.value) = 1
        /\ ret.result.value[1].page_content = ret.arg
        /\ <<"source", "user_input">> \in ret.result.value[1].metadata

(***************************************************************************)
(* Claims about the session handlers (Spec)                                *)
(***************************************************************************)
Tabs == {"upload_tab", "url_tab", "text_tab"}

Msg429 == <<"H", "T", "T", "P", " ", "4", "2", "9">>
MsgQuota == <<"Q", "u", "o", "t", "a", " ", "h", "i", "t">>
MsgTimeout == <<"t", "i", "m", "e", "d", " ", "o", "u", "t">>

\* C1: whatever the retrieval/generation call does (answer, rate-limit error, any
\* other exception), asking lets no exception out of the handler and shows a
\* string: the answer, the rate-limit advisory or a failure message.
C1_AskNeverRaises ==
    last.op = "ask" =>
        /\ ~last.raised
        /\ last.answer # <<>>
        /\ last.exc = NoExc => last.answer = <<"a", "n", "s">>
        /\ last.exc # NoExc =>
              last.answer \in {RateLimitText, <<"Error generating response: ">> \o last.exc.msg}

\* C1's case: the call failed with an exception that is no rate-limit error, and
\* the handler showed the failure message.
C1_Witness ==
    /\ last.op = "ask"
    /\ last.exc.msg = MsgTimeout
    /\ last.answer = <<"Error generating response: ">> \o MsgTimeout

\* C2: an ask that fails with a message holding "429" or "quota" (in any case) shows
\* the rate-limit advisory, any other failure shows the failure message, and either
\* way the history grows by exactly one turn: the question with the text shown.
C2_FailedAskRecorded ==
    [][(last'.op = "ask" /\ last'.exc # NoExc) =>
          /\ chat_history' = Append(chat_history, <<last'.question, last'.answer>>)
          /\ last'.exc.msg \in {Msg429, MsgQuota} => last'.answer = RateLimitText
          /\ last'.exc.msg \notin {Msg429, MsgQuota} =>
                last'.answer = <<"Error generating response: ">> \o last'.exc.msg]_vars

\* C2's case: a quota error was met after one earlier turn; the history holds two
\* turns, the last one the question with the advisory.
C2_Witness ==
    /\ last.op = "ask"
    /\ last.exc.msg = MsgQuota
    /\ Len(chat_history) = 2
    /\ chat_history[2] = <<last.question, RateLimitText>>

\* C3: clearing the chat history empties it and leaves the session's index and
\* conversation as they were; an ask is answered from the session's index.
C3_ResetKeepsIndex ==
    [][/\ last'.op = "clear" =>
             /\ chat_history' = <<>>
             /\ vectorstore' = vectorstore
             /\ conversation' = conversation
             /\ conversation # None
             /\ memory' = memory
       /\ last'.op = "ask" =>
             /\ vectorstore' = vectorstore
             /\ last'.request[1].retriever = vectorstore[1]]_vars

\* C3's case: two turns were stored, the history was cleared, and the next
\* question was answered: one stored turn, three turns saved through the same
\* conversation.
C3_Witness ==
    /\ last.op = "ask"
    /\ last.status = "answered"
    /\ Len(chat_history) = 1
    /\ Len(memory[conversation[1].memory]) = 3
    /\ last.request[1].retriever = vectorstore[1]

\* C4: an ingest that fails (loading raises, or building the vector store raises)
\* leaves the session's index, its conversation with the turns saved in it, and the
\* chat history as they were.
C4_FailedIngestKeepsState ==
    [][(last'.op \in Tabs /\ last'.status = "failed") =>
          /\ vectorstore' = vectorstore
          /\ conversation' = conversation
          /\ chat_history' = chat_history
          /\ conversation # None =>
                memory'[conversation[1].memory] = memory[conversation[1].memory]]_vars

\* C4's case: an ingest failed in a session that has an index, a conversation with
\* a saved turn and a stored turn.
C4_Witness ==
    /\ last.op \in Tabs
    /\ last.status = "failed"
    /\ vectorstore # None
    /\ conversation # None
    /\ memory[conversation[1].memory] # <<>>
    /\ chat_history # <<>>

\* C5: the session's conversation always retrieves from the index stored as the
\* session's index, and after a successful ingest that index holds the chunks of
\* the ingested batch and nothing else.
C5_IndexReplaced ==
    /\ conversation # None =>
          /\ vectorstore # None
          /\ conversation[1].retriever = vectorstore[1]
    /\ (last.op \in Tabs /\ last.status = "ok") =>
          /\ conversation # None
          /\ vectorstore = Some([docstore |-> split_documents(last.docs[1])])

\* C5's case: a text was ingested in a session that already had a conversation
\* (it has a stored turn); the index holds the text's chunk only.
C5_Witness ==
    /\ last.op = "text_tab"
    /\ last.status = "ok"
    /\ chat_history # <<>>
    /\ vectorstore[1].docstore = <<Document(TextA, {<<"source", "user_input">>})>>

AllButLast(seq) == SubSeq(seq, 1, Len(seq) - 1)

MostRecent(seq, k) == IF Len(seq) <= k THEN seq ELSE SubSeq(seq, Len(seq) - k + 1, Len(seq))

\* C9: the prior conversation sent with a question is the most recent 5 turns of
\* the stored chat history as it was before the question, turns of failed asks
\* included.
C9_ContextIsStoredHistory ==
    last.op = "ask" =>
        last.request[1].chat_history = MostRecent(AllButLast(chat_history), 5)

\* C14: the stored history is append-only between resets: an ask, answered or
\* failed, puts exactly one turn, the question with the string shown, at the end
\* and leaves the earlier turns as they were; the clear button empties it; no
\* other step of a script run, an ingest in particular, changes it.
C14_HistoryAppendOnly ==
    [][/\ (pc = "input" /\ last'.op = "ask") =>
               /\ Len(chat_history') = Len(chat_history) + 1
               /\ SubSeq(chat_history', 1, Len(chat_history)) = chat_history
               /\ chat_history'[Len(chat_history')] = <<last'.question, last'.answer>>
               /\ last'.answer # <<>>
       /\ (pc = "input" /\ last'.op = "clear") => chat_history' = <<>>
       /\ ~(pc = "input" /\ last'.op \in {"ask", "clear"}) => chat_history' = chat_history
      ]_vars

\* A failed ask has put the second turn after an answered one, and an ingest with
\* a stored turn has gone by in between.
C14_Witness ==
    /\ last.op = "ask"
    /\ last.status = "error"
    /\ Len(chat_history) = 2
    /\ chat_history[1][2] = <<"a", "n", "s">>
    /\ chat_history[2] = <<last.question, <<"Error generating response: ">> \o MsgTimeout>>
    /\ last.request[1].chat_history = <<>>

\* C15: after the clear button the turn history is empty also as generation
\* context: the ask that finds the stored history empty (the first ask after a
\* reset; before the session's first ask no turn exists at all) is sent with no
\* prior conversation, so with no turn recorded before the reset.
C15_ResetClearsContext ==
    (last.op = "ask" /\ Len(chat_history) = 1) => last.request[1].chat_history = <<>>

(***************************************************************************)
(* Claims about split_documents (SpecSplit)                                *)
(***************************************************************************)
RECURSIVE InOrder(_, _, _, _, _)
\* The chunks lie in the text one after the other: each starts at `from`, where
\* the one before it starts, or later, and shares at most `overlap` characters
\* with the one before it, which ended at prev_end.
InOrder(chunks, text, from, prev_end, overlap) ==
    \/ chunks = <<>>
    \/ \E p \in from..(Len(text) - Len(Head(chunks)) + 1) :
          /\ SubSeq(text, p, p + Len(Head(chunks)) - 1) = Head(chunks)
          /\ prev_end - p + 1 <= overlap
          /\ InOrder(Tail(chunks), text, p, p + Len(Head(chunks)) - 1, overlap)

RECURSIVE ChunksFollowUnits(_, _, _)
\* The chunks are those of the first unit, in its order, then those of the next.
ChunksFollowUnits(chunks, units, overlap) ==
    IF units = <<>> THEN chunks = <<>>
    ELSE \E n \in 0..Len(chunks) :
            /\ \A i \in 1..n : chunks[i].metadata = Head(units).metadata
            /\ InOrder([i \in 1..n |-> chunks[i].page_content],
                       Head(units).page_content, 1, 0, overlap)
            /\ ChunksFollowUnits(SubSeq(chunks, n + 1, Len(chunks)), Tail(units), overlap)

\* C13: for a chunk size S and an overlap O < S, split_documents returns chunks of
\* at most S characters, in source order (unit by unit, and within a unit in the
\* order of the text), two consecutive chunks of a unit sharing at most O
\* characters; no documents give no chunks.
C13_ChunksBounded ==
    (ret.op = "split_documents" /\ ret.opt[1].chunk_overlap < ret.opt[1].chunk_size) =>
        /\ ~ret.result.raised
        /\ \A i \in 1..Len(ret.result.value) :
              /\ ret.result.value[i].page_content # <<>>
              /\ Len(ret.result.value[i].page_content) <= ret.opt[1].chunk_size
        /\ ChunksFollowUnits(ret.result.value, ret.arg, ret.opt[1].chunk_overlap)
        /\ (ret.arg = <<>> => ret.result.value = <<>>)

\* A text without separators is cut into chunks of three characters that share
\* one, after a unit that gave no chunk.
C13_Witness ==
    /\ ret.op = "split_documents"
    /\ ret.opt = Some([chunk_size |-> 3, chunk_overlap |-> 1])
    /\ Len(ret.arg) = 2
    /\ ret.arg[1].page_content = <<>>
    /\ [i \in 1..Len(ret.result.value) |-> ret.result.value[i].page_content]
           = <<<<"a", "b", "c">>, <<"c", "d", "e">>, <<"e", "f", "g">>>>

(***************************************************************************)
(* Claims about TogetherEmbeddings (SpecEmbed)                             *)
(***************************************************************************)
\* The kind of error a missing credential gives.
ConfigErrorKind == TogetherEmbeddings(None, None).exc.type

\* C12: an embedding request that fails (network error, rate limit, non-200
\* response) raises an error of a kind other than the one raised for a missing
\* API key, so that the two can be told apart.
C12_RequestErrorKindDiffers ==
    (ret.op \in {"_get_embedding", "embed_documents"} /\ ret.result.raised) =>
        ret.result.exc.type # ConfigErrorKind

(***************************************************************************)
(* Claims about PDFQAApp's construction (SpecApp)                          *)
(***************************************************************************)
\* C16: with the Together.ai key in the environment, PDFQAApp() ends with
\* error = None and a QAChain whose LLM is the one TogetherAIManager.get_llm
\* gave, and run() goes on to handle_document_upload and handle_user_input.
C16_AppBuiltWithCredential ==
    (ret.op = "PDFQAApp" /\ Truthy(ret.env.value.TOGETHER_API_KEY)) =>
        LET self == ret.result.value
        IN  /\ self.error = None
            /\ self.qa_chain # None
            /\ self.qa_chain[1].llm = get_llm(self.together_ai[1])
            /\ (pc # "run" => pc = "upload_tab" /\ last.status = "handlers")

(***************************************************************************)
(* Claims about concurrent sessions (SpecSessions)                         *)
(***************************************************************************)
\* C11: sessions share no mutable state: however the upload steps of two
\* sessions interleave (two files of the same extension included), a session's
\* index holds the chunks of a file that session uploaded and nothing else, and
\* its history holds its own questions only.
C11_SessionsIsolated ==
    \A s \in SessionIds :
        /\ sessions[s].vectorstore # None =>
               sessions[s].vectorstore[1].docstore
                   \in {split_documents(u.loaded.value) : u \in SessionUploads(s)}
        /\ \A i \in 1..Len(sessions[s].chat_history) :
               sessions[s].chat_history[i][1] = SessionQuestion(s)

(***************************************************************************)
(* Claims about QAChain (SpecQA)                                           *)
(***************************************************************************)
\* C10: a chain made by create_chain starts with an empty turn history: no turn
\* recorded through an earlier chain is in what it sends as prior conversation.
C10_NewChainHistoryEmpty ==
    last.op = "create_chain" => last.request[1].chat_history = <<>>

====
